---- MODULE Spec2Model ----
(***************************************************************************)
(* Face-detection dashboard: FaceDetector (src/detector.py), the cached    *)
(* get_detector and the maybe_resize helper (src/app.py).                  *)
(*                                                                         *)
(* Fractions are kept as integers: confidences and scores in hundredths    *)
(* (0.6 is 60, 1.0 is 100), the font scale in tenths (0.6 is 6).           *)
(* Optional[str] is a sequence: <<>> is None, <<s>> is the string s.       *)
(* An image object is [id, h, w, scene, ink]: id is the object's identity, *)
(* scene stands for the decoded pixels (the face-like patterns the cascade *)
(* responds to), ink is the sequence of drawing primitives rendered onto   *)
(* the pixels. Two images are pixel-for-pixel equal when h, w, scene and   *)
(* ink agree.                                                              *)
(***************************************************************************)
EXTENDS Integers, Sequences, FiniteSets, TLC

VARIABLES
    resource,   \* state of the bundled haarcascade_frontalface_default.xml
    detectors,  \* every FaceDetector instance constructed so far, by identity
    cache,      \* st.cache_resource entries of get_detector: key -> instance
    built,      \* per key, how many times FaceDetector.__init__ completed
    img_bgr,    \* the image object the caller currently holds (<<>> if none)
    ref,        \* one earlier detect_faces call, kept for comparison
    obs,        \* the last operation: its arguments, result and effects
    rz          \* the maybe_resize call under way: arguments and outcome

vars == <<resource, detectors, cache, built, img_bgr, ref, obs, rz>>

----------------------------------------------------------------------------
(* Bounds of the model *)

MaxDetectors == 2   \* instances constructed in one behaviour
MaxFaces == 2       \* face-like patterns in one image
MaxBoxes == 2       \* boxes passed to one draw_detections call
MaxDim == 5         \* image sides and max_size tried on maybe_resize

(* Program constants *)

MinNeighbors == 5
MinSize == 40
SentinelScore == 100
TextFloor == 20
TextLift == 10
FontScale == 6
Thickness == 2
CapLine == 12
BaseLine == 9
DefaultMaxSize == 1024

None == <<>>
NoCall == [op |-> "none"]
Some(s) == <<s>>

Max(a, b) == IF a >= b THEN a ELSE b

----------------------------------------------------------------------------
(* Inputs *)

\* Positions of the "Minimum confidence" slider (0.3 .. 0.9) and of the
\* "Model detail" selectbox that the model tries.
ConfValues == {30, 60}
ModelSelValues == {0, 1}
Keys == ConfValues \X ModelSelValues

\* Face-like patterns: where the cascade fires, how large the window and how
\* many raw hits overlap there.
Patterns ==
    { [x |-> 0,  y |-> 0,  w |-> 60, h |-> 60, n |-> 8],
      [x |-> 60, y |-> 60, w |-> 40, h |-> 40, n |-> 6],
      [x |-> 20, y |-> 30, w |-> 30, h |-> 30, n |-> 9],
      [x |-> 0,  y |-> 25, w |-> 50, h |-> 50, n |-> 5] }

ImageSizes == { <<100, 100>>, <<30, 30>> }

Fits(p, h, w) == p.x >= 0 /\ p.y >= 0 /\ p.x + p.w <= w /\ p.y + p.h <= h

\* A scene lists its patterns top to bottom, left to right; no two share a
\* position here.
Before(p, q) == p.y < q.y \/ (p.y = q.y /\ p.x < q.x)

RECURSIVE InScanOrder(_)
InScanOrder(S) ==
    IF S = {} THEN <<>>
    ELSE LET first == CHOOSE p \in S : \A q \in S \ {p} : Before(p, q)
         IN <<first>> \o InScanOrder(S \ {first})

Scenes(h, w) ==
    { InScanOrder(S) : S \in { T \in SUBSET { p \in Patterns : Fits(p, h, w) } :
                                 Cardinality(T) <= MaxFaces } }

\* Decoded uploads and camera frames (load_image_file), each a fresh object.
Uploads ==
    UNION { { [id |-> 1, h |-> s[1], w |-> s[2], scene |-> sc, ink |-> <<>>] :
              sc \in Scenes(s[1], s[2]) } : s \in ImageSizes }

Pixels(image) == [h |-> image.h, w |-> image.w, scene |-> image.scene, ink |-> image.ink]

----------------------------------------------------------------------------
(* FaceDetector.__init__ and get_detector *)

\* cv2.CascadeClassifier(path): a missing file gives an empty classifier and
\* no exception; a corrupt file either raises from the parser or gives an
\* empty classifier, depending on the OpenCV build.
LoadOutcomes(res) ==
    CASE res = "ok" -> { [raised |-> FALSE, empty |-> FALSE] }
      [] res = "missing" -> { [raised |-> FALSE, empty |-> TRUE] }
      [] res = "corrupt" -> { [raised |-> TRUE, empty |-> TRUE],
                              [raised |-> FALSE, empty |-> TRUE] }

\* The instance __init__ leaves behind: model_selection is accepted and dropped.
NewDetector(min_confidence, model_selection, loaded) ==
    [min_confidence |-> min_confidence, cascade |-> [empty |-> loaded.empty]]

NoEntry == <<>>

\* A new instance is told apart from every other by the arguments it was
\* built from and by how many instances were built from them before it.
NewId(key) == <<key, built[key] + 1>>

\* FaceDetector(min_confidence=conf, model_selection=model_sel), uncached.
Construct(key, loaded) ==
    IF loaded.raised
    THEN /\ obs' = [op |-> "get_detector", key |-> key, raised |-> TRUE, hit |-> FALSE]
         /\ UNCHANGED <<detectors, cache, built>>
    ELSE /\ detectors' = [i \in DOMAIN detectors \cup {NewId(key)} |->
                            IF i = NewId(key) THEN NewDetector(key[1], key[2], loaded)
                            ELSE detectors[i]]
         /\ cache' = [cache EXCEPT ![key] = NewId(key)]
         /\ built' = [built EXCEPT ![key] = @ + 1]
         /\ obs' = [op |-> "get_detector", key |-> key, raised |-> FALSE, hit |-> FALSE,
                    ret |-> NewId(key)]

\* get_detector without its decorator: a new instance on every rerun.
get_detector_uncached(conf, model_sel) ==
    /\ Cardinality(DOMAIN detectors) < MaxDetectors
    /\ \E loaded \in LoadOutcomes(resource) : Construct(<<conf, model_sel>>, loaded)
    /\ UNCHANGED <<resource, img_bgr, ref, rz>>

\* @st.cache_resource: one entry per argument tuple, computed under the
\* cache's lock on a miss, returned as is on a hit.
get_detector(conf, model_sel) ==
    LET key == <<conf, model_sel>> IN
    /\ IF cache[key] # NoEntry
       THEN /\ obs' = [op |-> "get_detector", key |-> key, raised |-> FALSE, hit |-> TRUE,
                       ret |-> cache[key]]
            /\ UNCHANGED <<detectors, cache, built>>
       ELSE /\ Cardinality(DOMAIN detectors) < MaxDetectors
            /\ \E loaded \in LoadOutcomes(resource) : Construct(key, loaded)
    /\ UNCHANGED <<resource, img_bgr, ref, rz>>

Main == \E conf \in ConfValues, model_sel \in ModelSelValues : get_detector(conf, model_sel)

----------------------------------------------------------------------------
(* maybe_resize, and the caller's image *)

\* int(v * scale) with scale = max_size / float(longest). The float product
\* truncates to the same integer as the exact quotient on the sizes tried.
Scaled(v, max_size, longest) == (v * max_size) \div longest

\* cv2.resize(image, (new_w, new_h)): an empty target size is an error.
Resize(new_w, new_h) ==
    IF new_w <= 0 \/ new_h <= 0
    THEN [raised |-> TRUE, same |-> FALSE, h |-> 0, w |-> 0]
    ELSE [raised |-> FALSE, same |-> FALSE, h |-> new_h, w |-> new_w]

maybe_resize(h, w, max_size) ==
    LET longest == Max(h, w) IN
    IF longest <= max_size
    THEN [raised |-> FALSE, same |-> TRUE, h |-> h, w |-> w]
    ELSE Resize(Scaled(w, max_size, longest), Scaled(h, max_size, longest))

ResizeCall ==
    /\ rz.op = "args"
    /\ rz' = [op |-> "maybe_resize", h |-> rz.h, w |-> rz.w, max_size |-> rz.max_size,
              ret |-> maybe_resize(rz.h, rz.w, rz.max_size)]
    /\ UNCHANGED <<resource, detectors, cache, built, img_bgr, ref, obs>>

\* img_bgr = load_image_file(f); img_bgr = maybe_resize(img_bgr): the decoded
\* images tried are below the default max_size and come back as they are.
LoadImage(image) ==
    /\ maybe_resize(image.h, image.w, DefaultMaxSize).same
    /\ img_bgr' = image
    /\ obs' = [op |-> "load"]
    /\ UNCHANGED <<resource, detectors, cache, built, ref, rz>>

----------------------------------------------------------------------------
(* FaceDetector.detect_faces *)

\* cv2.cvtColor(BGR2GRAY) then cv2.equalizeHist: new arrays of the same size,
\* computed from the pixels alone.
Gray(image) == [h |-> image.h, w |-> image.w, scene |-> image.scene]

RECURSIVE Kept(_, _, _)
Kept(scene, minNeighbors, minSize) ==
    IF scene = <<>> THEN <<>>
    ELSE LET p == Head(scene)
             rest == Kept(Tail(scene), minNeighbors, minSize)
         IN IF p.n > minNeighbors /\ p.w >= minSize[1] /\ p.h >= minSize[2]
            THEN << <<p.x, p.y, p.w, p.h>> >> \o rest
            ELSE rest

\* The orders a sequence's elements can come in.
RECURSIVE Orders(_)
Orders(q) ==
    IF q = <<>> THEN { <<>> }
    ELSE UNION { { <<q[i]>> \o r :
                   r \in Orders([j \in 1..(Len(q) - 1) |-> IF j < i THEN q[j] ELSE q[j + 1]]) } :
                 i \in DOMAIN q }

\* cascade.detectMultiScale: windows smaller than minSize are not scanned,
\* groups of minNeighbors raw hits or fewer are rejected, and each group left
\* yields one rectangle (x, y, w, h) inside the scanned image. Which
\* rectangles come back is a function of the pixels; the raw hits are
\* collected from stripes scanned in parallel, so the order they come back in
\* is not.
detectMultiScale(gray, minNeighbors, minSize) ==
    Orders(Kept(gray.scene, minNeighbors, minSize))

\* FaceBox(box=(x, y, w, h), score=1.0)
FaceBox(face) == [box |-> <<face[1], face[2], face[3], face[4]>>, score |-> SentinelScore]

\* detect_faces asking for windows from 30 x 30 up.
ScanArgsSmallWindow(self) == [minNeighbors |-> MinNeighbors, minSize |-> <<30, 30>>]

\* The minNeighbors and minSize the wrapper passes; self is read for its
\* cascade only.
ScanArgs(self) == [minNeighbors |-> MinNeighbors, minSize |-> <<MinSize, MinSize>>]

\* detect_faces reporting the detector's threshold as the score.
BoxesScoredByConfidence(self, faces) ==
    [i \in 1..Len(faces) |-> [FaceBox(faces[i]) EXCEPT !.score = self.min_confidence]]

\* for (x, y, w, h) in faces: boxes.append(...)
Boxes(self, faces) == [i \in 1..Len(faces) |-> FaceBox(faces[i])]

\* detect_faces releasing the classifier once it has used it.
AfterDetectReleased(self) == [self EXCEPT !.cascade = [empty |-> TRUE]]

\* The detector's fields once detect_faces has returned: it assigns none.
AfterDetect(self) == self

detect_faces(d, image) ==
    LET self == detectors[d]
        gray == Gray(image)
        args == ScanArgs(self)
        again == ref # NoCall /\ ref.image = Pixels(image)
    IN \E faces \in detectMultiScale(gray, args.minNeighbors, args.minSize) :
       LET call == IF self.cascade.empty
                THEN \* detectMultiScale on an empty classifier raises cv2.error
                     [op |-> "detect_faces", self |-> d, conf |-> self.min_confidence,
                      image |-> Pixels(image), again |-> again,
                      raised |-> TRUE, faces |-> <<>>, boxes |-> <<>>]
                ELSE [op |-> "detect_faces", self |-> d, conf |-> self.min_confidence,
                      image |-> Pixels(image), again |-> again,
                      raised |-> FALSE, faces |-> faces, boxes |-> Boxes(self, faces)]
       IN
       /\ obs' = call
       /\ detectors' = [detectors EXCEPT ![d] = AfterDetect(self)]
       /\ ref' \in {call} \cup (IF ref = NoCall THEN {} ELSE {ref})
       /\ UNCHANGED <<resource, cache, built, img_bgr, rz>>

\* boxes = detector.detect_faces(img_bgr), on any instance handed out so far
Detect(d) == img_bgr # None /\ detect_faces(d, img_bgr)

----------------------------------------------------------------------------
(* FaceDetector.draw_detections *)

\* out = image_bgr: another name for the caller's array.
CopyAliased(image) == image

\* image_bgr.copy(): a new array holding the same pixels.
Copy(image) == [image EXCEPT !.id = image.id + 1]

\* enumerate(boxes) without start=1.
CaptionTextZeroBased(label, idx) ==
    IF label # None /\ label[1] # "" THEN label[1] ELSE "Face " \o ToString(idx - 1)

\* label if label else f"Face {idx}": None and the empty string are falsy.
Truthy(label) == label # None /\ label[1] # ""
CaptionText(label, idx) == IF Truthy(label) THEN label[1] ELSE "Face " \o ToString(idx)

\* (x, y - 10), without the floor.
CaptionOrgUnclamped(x, y) == <<x, y - TextLift>>

\* (x, max(20, y - 10)): the bottom-left corner of the text.
CaptionOrg(x, y) == <<x, Max(TextFloor, y - TextLift)>>

\* How far the rendered text reaches above org: cv2.getTextSize's height for
\* FONT_HERSHEY_SIMPLEX (cap line 12, base line 9), rounded as cvRound does.
TextHeight(fontScale, thickness) ==
    ((CapLine + BaseLine) * fontScale + 10 * ((thickness + 1) \div 2) + 5) \div 10

\* A loop body that writes a caption only when a label was given.
DrawOneCaptionIfLabel(out, idx, fb, label) ==
    LET x == fb.box[1]
        y == fb.box[2]
        w == fb.box[3]
        h == fb.box[4]
    IN [out EXCEPT !.ink = @ \o
          << [kind |-> "rectangle", pt1 |-> <<x, y>>, pt2 |-> <<x + w, y + h>>,
              thickness |-> Thickness] >> \o
          (IF label = None THEN <<>>
           ELSE << [kind |-> "putText", text |-> label[1],
                    org |-> <<x, Max(TextFloor, y - TextLift)>>, fontScale |-> FontScale,
                    thickness |-> Thickness] >>)]

\* One pass of the loop body: cv2.rectangle, then cv2.putText, both on out.
DrawOne(out, idx, fb, label) ==
    LET x == fb.box[1]
        y == fb.box[2]
        w == fb.box[3]
        h == fb.box[4]
    IN [out EXCEPT !.ink = @ \o
          << [kind |-> "rectangle", pt1 |-> <<x, y>>, pt2 |-> <<x + w, y + h>>,
              thickness |-> Thickness],
             [kind |-> "putText", text |-> CaptionText(label, idx),
              org |-> CaptionOrg(x, y), fontScale |-> FontScale,
              thickness |-> Thickness] >>]

\* for idx, fb in enumerate(boxes, start=1)
RECURSIVE DrawFrom(_, _, _, _)
DrawFrom(out, idx, boxes, label) ==
    IF boxes = <<>> THEN out
    ELSE DrawFrom(DrawOne(out, idx, Head(boxes), label), idx + 1, Tail(boxes), label)

draw_detections(image_bgr, boxes, label) ==
    LET out == DrawFrom(Copy(image_bgr), 1, boxes, label) IN
    /\ obs' = [op |-> "draw_detections", image_bgr |-> image_bgr, boxes |-> boxes,
               label |-> label, ret |-> out]
    \* drawing on an object draws on every name bound to it
    /\ img_bgr' = IF out.id = img_bgr.id THEN out ELSE img_bgr
    /\ UNCHANGED <<resource, detectors, cache, built, ref>>

\* run_image_mode and run_webcam_mode: the boxes detect_faces has just
\* returned are drawn on the image they were found in, under the name taken
\* from the file name (never empty) or under no label.
AppLabels == { None, Some("Ann") }

Annotate(label) ==
    /\ img_bgr # None
    /\ obs.op = "detect_faces"
    /\ ~obs.raised
    /\ draw_detections(img_bgr, obs.boxes, label)
    /\ UNCHANGED rz

\* A direct call of the static method with the arguments held in rz.
DrawCall ==
    /\ rz.op = "args"
    /\ draw_detections(img_bgr, rz.boxes, rz.label)
    /\ rz' = [op |-> "called"]

DrawBoxes == { FaceBox(<<p.x, p.y, p.w, p.h>>) : p \in Patterns }

RECURSIVE SeqsUpTo(_, _)
SeqsUpTo(S, n) ==
    IF n = 0 THEN { <<>> }
    ELSE LET shorter == SeqsUpTo(S, n - 1)
         IN shorter \cup { Append(q, e) : q \in { r \in shorter : Len(r) = n - 1 }, e \in S }

BoxLists == SeqsUpTo(DrawBoxes, MaxBoxes)
Labels == { None, Some(""), Some("Ann") }

----------------------------------------------------------------------------
\* The cascade file ships with the installed OpenCV package: it is there, or
\* missing, or corrupt, and stays so while the process runs.
Init ==
    /\ resource \in {"ok", "missing", "corrupt"}
    /\ detectors = [i \in {} |-> 0]
    /\ cache = [k \in Keys |-> NoEntry]
    /\ built = [k \in Keys |-> 0]
    /\ img_bgr = None
    /\ ref = NoCall
    /\ obs = NoCall
    /\ rz = NoCall

Next ==
    \/ Main
    \/ \E image \in Uploads : LoadImage(image)
    \/ \E d \in DOMAIN detectors : Detect(d)
    \/ \E label \in AppLabels : Annotate(label)

Spec == Init /\ [][Next]_vars

ResizeArgs ==
    { [op |-> "args", h |-> h, w |-> w, max_size |-> m] :
      h \in 1..MaxDim, w \in 1..MaxDim, m \in 1..MaxDim }

InitResize ==
    /\ resource = "ok"
    /\ detectors = [i \in {} |-> 0]
    /\ cache = [k \in Keys |-> NoEntry]
    /\ built = [k \in Keys |-> 0]
    /\ img_bgr = None
    /\ ref = NoCall
    /\ obs = NoCall
    /\ rz \in ResizeArgs

NextResize == ResizeCall

SpecResize == InitResize /\ [][NextResize]_vars

DrawArgs == { [op |-> "args", boxes |-> b, label |-> l] : b \in BoxLists, l \in Labels }

InitDraw ==
    /\ resource = "ok"
    /\ detectors = [i \in {} |-> 0]
    /\ cache = [k \in Keys |-> NoEntry]
    /\ built = [k \in Keys |-> 0]
    /\ img_bgr \in Uploads
    /\ ref = NoCall
    /\ obs = NoCall
    /\ rz \in DrawArgs

NextDraw == DrawCall

SpecDraw == InitDraw /\ [][NextDraw]_vars

----------------------------------------------------------------------------
(* Properties of draw_detections, checked under SpecDraw *)

Drew == obs.op = "draw_detections"

Rectangles(ink) == SelectSeq(ink, LAMBDA e : e.kind = "rectangle")
Captions(ink) == SelectSeq(ink, LAMBDA e : e.kind = "putText")

\* The number n of a caption "Face n", 0 for any other text.
CaptionNumber(text) ==
    LET N == { n \in 1..(MaxBoxes + 2) : text = "Face " \o ToString(n) }
    IN IF N = {} THEN 0 ELSE CHOOSE n \in N : TRUE

HighestNumber(captions) ==
    LET N == { CaptionNumber(captions[i].text) : i \in DOMAIN captions } \cup {0}
    IN CHOOSE n \in N : \A m \in N : m <= n

\* C1: draw_detections leaves the image it was given pixel-for-pixel as it
\* was, for every list of boxes and every label, and returns another object.
C1_InputNotMutated ==
    Drew => /\ Pixels(img_bgr) = Pixels(obs.image_bgr)
            /\ obs.ret.id # obs.image_bgr.id

C1_Witness ==
    /\ Drew
    /\ Len(obs.boxes) >= 2
    /\ obs.ret.ink # <<>>
    /\ img_bgr = obs.image_bgr

\* C2: one rectangle and one caption are drawn per box, in order, none
\* skipped and none twice; with no label the highest caption number is
\* len(boxes).
C2_OnePerBox ==
    Drew =>
      LET r == Rectangles(obs.ret.ink)
          c == Captions(obs.ret.ink)
          n == Len(obs.boxes)
      IN /\ Len(r) = n
         /\ Len(c) = n
         /\ Len(obs.ret.ink) = Len(obs.image_bgr.ink) + 2 * n
         /\ \A i \in 1..n :
              LET b == obs.boxes[i].box IN
              /\ r[i].pt1 = <<b[1], b[2]>>
              /\ r[i].pt2 = <<b[1] + b[3], b[2] + b[4]>>
              /\ c[i].org[1] = b[1]
         /\ (obs.label = None => HighestNumber(c) = n)

C2_Witness ==
    /\ Drew
    /\ obs.label = None
    /\ Len(obs.boxes) >= 2
    /\ obs.boxes[1] # obs.boxes[2]
    /\ HighestNumber(Captions(obs.ret.ink)) = Len(obs.boxes)

\* C3 as stated: a supplied label (anything but None) captions every region;
\* with no label the i-th region passed in is captioned "Face i".
C3_AsStated ==
    Drew =>
      LET c == Captions(obs.ret.ink) IN
      \A i \in DOMAIN c :
        IF obs.label # None
        THEN c[i].text = obs.label[1]
        ELSE c[i].text = "Face " \o ToString(i) /\ c[i].org[1] = obs.boxes[i].box[1]

\* C3, amended: a supplied non-empty label captions every region; with no
\* label, or with the empty string as label, the i-th region passed in is
\* captioned "Face i".
C3_CaptionText ==
    Drew =>
      LET c == Captions(obs.ret.ink) IN
      /\ Len(c) = Len(obs.boxes)
      /\ \A i \in DOMAIN c :
           IF obs.label # None /\ obs.label # Some("")
           THEN c[i].text = obs.label[1]
           ELSE c[i].text = "Face " \o ToString(i) /\ c[i].org[1] = obs.boxes[i].box[1]

SortedByYX(boxes) ==
    \A i \in 1..(Len(boxes) - 1) :
      \/ boxes[i].box[2] < boxes[i + 1].box[2]
      \/ boxes[i].box[2] = boxes[i + 1].box[2] /\ boxes[i].box[1] < boxes[i + 1].box[1]

C3_Witness ==
    /\ Drew
    /\ obs.label = None
    /\ Len(obs.boxes) >= 2
    /\ SortedByYX(obs.boxes)
    /\ Captions(obs.ret.ink)[2].text = "Face 2"

\* C9: the caption of region (x, y, w, h) is anchored at (x, max(20, y - 10)):
\* 10 pixels above the corner, never higher than 20, so the text stays below
\* the image's top edge, for y = 0 too.
C9_CaptionPlacement ==
    Drew =>
      LET c == Captions(obs.ret.ink) IN
      /\ Len(c) = Len(obs.boxes)
      /\ \A i \in DOMAIN c :
           LET x == obs.boxes[i].box[1]
               y == obs.boxes[i].box[2]
           IN /\ c[i].org[1] = x
              /\ c[i].org[2] = (IF y - 10 >= 20 THEN y - 10 ELSE 20)
              /\ c[i].org[2] >= 20
              /\ c[i].org[2] - TextHeight(c[i].fontScale, c[i].thickness) >= 0

C9_Witness ==
    /\ Drew
    /\ \E i \in DOMAIN obs.boxes :
         obs.boxes[i].box[2] = 0 /\ Captions(obs.ret.ink)[i].org[2] = 20
    /\ \E i \in DOMAIN obs.boxes :
         obs.boxes[i].box[2] = 60 /\ Captions(obs.ret.ink)[i].org[2] = 50

----------------------------------------------------------------------------
(* Properties of detect_faces and get_detector, checked under Spec *)

Detected == obs.op = "detect_faces"

\* C4: every box detect_faces returns lies inside the image and is at least
\* 40 x 40, and the boxes are the cascade's rectangles, one for one.
C4_BoxesInBounds ==
    (Detected /\ ~obs.raised) =>
      /\ Len(obs.boxes) = Len(obs.faces)
      /\ \A i \in DOMAIN obs.boxes :
           LET b == obs.boxes[i].box IN
           /\ b = obs.faces[i]
           /\ b[1] >= 0 /\ b[2] >= 0
           /\ b[1] + b[3] <= obs.image.w
           /\ b[2] + b[4] <= obs.image.h
           /\ b[3] >= 40 /\ b[4] >= 40

C4_Witness ==
    /\ Detected
    /\ Len(obs.boxes) = 2
    /\ Len(obs.image.scene) = 2
    /\ \E i \in DOMAIN obs.boxes :
         LET b == obs.boxes[i].box IN b[3] = 40 /\ b[1] + b[3] = obs.image.w

\* C5: two detect_faces calls of one detector on the identical image, with
\* whatever calls in between, give the same region count, and detect_faces
\* leaves every field of every detector as it was.
C5_Idempotent ==
    /\ [](Detected /\ ref # NoCall /\ ref.self = obs.self /\ ref.image = obs.image
            => ref.raised = obs.raised /\ Len(ref.boxes) = Len(obs.boxes))
    /\ [][obs'.op = "detect_faces" => \A d \in DOMAIN detectors : detectors'[d] = detectors[d]]_vars

C5_Witness ==
    /\ Detected
    /\ obs.again
    /\ ref.self = obs.self /\ ref.image = obs.image
    /\ ~ref.again
    /\ Len(obs.boxes) >= 1

\* The same boxes, each as often, in whatever order.
SameBoxes(a, b) ==
    /\ Len(a) = Len(b)
    /\ \A e \in { a[i] : i \in DOMAIN a } \cup { b[i] : i \in DOMAIN b } :
         Cardinality({ i \in DOMAIN a : a[i] = e }) = Cardinality({ i \in DOMAIN b : b[i] = e })

C7_FatalAtConstruction ==
    /\ \A d \in DOMAIN detectors : ~detectors[d].cascade.empty
    /\ (Detected => ~obs.raised)

\* C8: at most one FaceDetector is built per config tuple; a request returns
\* the instance cached for its tuple, built from that tuple; an entry, once
\* made, stays; and no instance's fields change after construction.
C8_CacheOncePerKey ==
    /\ [](/\ \A k \in Keys : built[k] <= 1
          /\ \A k \in Keys : cache[k] # NoEntry => cache[k] \in DOMAIN detectors
          /\ \A j, k \in Keys : (cache[j] # NoEntry /\ cache[j] = cache[k]) => j = k
          /\ (obs.op = "get_detector" /\ ~obs.raised =>
                /\ obs.ret = cache[obs.key]
                /\ detectors[obs.ret].min_confidence = obs.key[1]))
    /\ [][\A k \in Keys : cache[k] # NoEntry => cache'[k] = cache[k]]_vars
    /\ [][\A d \in DOMAIN detectors :
            d \in DOMAIN detectors' /\ detectors'[d] = detectors[d]]_vars

C8_Witness ==
    /\ obs.op = "get_detector"
    /\ obs.hit
    /\ Cardinality(DOMAIN detectors) >= 2
    /\ ref # NoCall /\ ref.self = obs.ret

----------------------------------------------------------------------------
(* Property of maybe_resize, checked under SpecResize *)

\* C10: for h, w, max_size >= 1, maybe_resize returns its input when
\* max(h, w) <= max_size, and otherwise does not fail and asks for a size
\* with both sides >= 1 and the longest <= max_size.
C10_ResizeValid ==
    rz.op = "maybe_resize" =>
      IF Max(rz.h, rz.w) <= rz.max_size
      THEN rz.ret.same /\ rz.ret.h = rz.h /\ rz.ret.w = rz.w
      ELSE /\ ~rz.ret.raised
           /\ rz.ret.h >= 1 /\ rz.ret.w >= 1
           /\ Max(rz.ret.h, rz.ret.w) <= rz.max_size
====
